---------------------------- MODULE Spec2Model ----------------------------
(***************************************************************************)
(* Model of the humming matcher of src/backend/melody_matcher.py and of    *)
(* the /api/match, /api/songs handlers of src/backend/App.py.              *)
(*                                                                         *)
(* Numbers.  Contour values are the integers -1, 0, +1.  The cells of the  *)
(* DTW cost table are sums of the costs 0.0, 1.0, 2.0, hence exact         *)
(* integers in floating point; +infinity is the value Inf.  A distance is  *)
(* the quotient table(n,m)/(n+m), kept as the pair num/den and compared by *)
(* cross-multiplication (two quotients of small integers are equal as      *)
(* floats exactly when they are equal as rationals).                       *)
(***************************************************************************)
EXTENDS Integers, Sequences, FiniteSets

(***************************************************************************)
(* Bounds of the model.                                                    *)
(***************************************************************************)
MaxLen == 3          \* longest contour handed to compute_distance directly
MaxWindow == 2       \* largest small Sakoe-Chiba window tried
MaxSongs == 2        \* identifiers the store is filled with
MaxRefLen == 1       \* longest contour in a loaded signature record
MaxFrames == 3       \* frames of a hummed query
MaxSongFrames == 2   \* frames of a song added from audio

(***************************************************************************)
(* Program constants.                                                      *)
(***************************************************************************)
Inf == -1            \* np.inf in a cell of the cost table
NoWindow == -2       \* window_size = None
HummingWindow == 50  \* DTWMatcher(window_size=50) of HummingMatcher

VARIABLES
    signatures,      \* MelodyDatabase.signatures, in insertion order
    window_size,     \* DTWMatcher.window_size
    call,            \* the operation invoked and its arguments
    response,        \* what the operation returned or raised
    song_metadata    \* the identifiers that are keys of App.song_metadata

vars == <<signatures, window_size, call, response, song_metadata>>

ContourValues == {-1, 0, 1}

\* all contours of at most L elements
Contours(L) == UNION {[1..k -> ContourValues] : k \in 0..L}

\* The window sizes a DTWMatcher is built with: None (the default), the
\* orchestrator's 50, and small windows, which are to the short contours of
\* the model what 50 is to contours of hundreds of frames.
Windows == {NoWindow, HummingWindow} \cup (1..MaxWindow)

Max(a, b) == IF a >= b THEN a ELSE b
Min(a, b) == IF a <= b THEN a ELSE b
Abs(a) == IF a < 0 THEN -a ELSE a

(***************************************************************************)
(* Arithmetic of the cost table with +infinity.                            *)
(***************************************************************************)
InfMin(a, b) == IF a = Inf THEN b ELSE IF b = Inf THEN a ELSE Min(a, b)
InfAdd(c, a) == IF a = Inf THEN Inf ELSE c + a

(***************************************************************************)
(* DTWMatcher._contour_distance                                            *)
(***************************************************************************)
Mutant_contour_distance(a, b) ==
    IF a = b THEN 0 ELSE IF a * b = -1 THEN 1 ELSE 1

_contour_distance(a, b) ==
    IF a = b THEN 0
    ELSE IF a * b = -1 THEN 2
    ELSE 1

(***************************************************************************)
(* DTWMatcher.compute_distance                                             *)
(***************************************************************************)
\* np.full((n + 1, m + 1), np.inf); dtw_matrix[0, 0] = 0
InitMatrix(n, m) ==
    [i \in 0..n |-> [j \in 0..m |-> IF i = 0 /\ j = 0 THEN 0 ELSE Inf]]

\* window = max(self.window_size, abs(n - m)), or max(n, m) without a window
BandWindow(w, n, m) ==
    IF w # NoWindow THEN Max(w, Abs(n - m)) ELSE Max(n, m)

\* j_end = min(m + 1, i + window), the exclusive end of range(j_start, j_end)
JEnd(i, m, window) == Min(m + 1, i + window)

\* j_start = max(1, i - window)
JStart(i, window) == Max(1, i - window)

\* the body of the inner loop, which sets dtw_matrix[i, j]
FillCell(dtw, query, reference, i, j) ==
    LET cost == _contour_distance(query[i], reference[j])
    IN  [dtw EXCEPT ![i][j] =
            InfAdd(cost, InfMin(dtw[i-1][j],
                         InfMin(dtw[i][j-1], dtw[i-1][j-1])))]

\* the inner loop: for j in range(j_start, j_end), in ascending order of j:
\* the first half of the range, then the second.  (Halving keeps TLC's
\* evaluation shallow for long contours, and the test on first makes TLC
\* finish the first half before it starts the second.)
RECURSIVE FillRow(_, _, _, _, _, _)
FillRow(dtw, query, reference, i, j_start, j_end) ==
    IF j_start >= j_end THEN dtw
    ELSE IF j_start + 1 = j_end
    THEN FillCell(dtw, query, reference, i, j_start)
    ELSE LET mid == (j_start + j_end) \div 2
             first == FillRow(dtw, query, reference, i, j_start, mid)
         IN  IF first = dtw
             THEN FillRow(dtw, query, reference, i, mid, j_end)
             ELSE FillRow(first, query, reference, i, mid, j_end)

\* the outer loop: for i in range(i_start, i_end), in ascending order of i
RECURSIVE FillMatrix(_, _, _, _, _, _)
FillMatrix(dtw, query, reference, window, i_start, i_end) ==
    IF i_start >= i_end THEN dtw
    ELSE IF i_start + 1 = i_end
    THEN FillRow(dtw, query, reference, i_start, JStart(i_start, window),
                 JEnd(i_start, Len(reference), window))
    ELSE LET mid == (i_start + i_end) \div 2
             first == FillMatrix(dtw, query, reference, window,
                                 i_start, mid)
         IN  IF first = dtw
             THEN FillMatrix(dtw, query, reference, window, mid, i_end)
             ELSE FillMatrix(first, query, reference, window, mid, i_end)

\* the cost table when compute_distance reaches its last statement
dtw_matrix(query, reference, w) ==
    LET n == Len(query)
        m == Len(reference)
    IN  FillMatrix(InitMatrix(n, m), query, reference, BandWindow(w, n, m),
                   1, n + 1)

InfDistance == [num |-> Inf, den |-> 1]

MutantNormalize(cell, n, m) ==
    IF cell = Inf THEN InfDistance ELSE [num |-> cell + n, den |-> n + m]

\* distance = dtw_matrix[n, m] / (n + m)
Normalize(cell, n, m) ==
    IF cell = Inf THEN InfDistance ELSE [num |-> cell, den |-> n + m]

compute_distance(query, reference, w) ==
    LET n == Len(query)
        m == Len(reference)
    IN  IF n = 0 \/ m = 0 THEN InfDistance
        ELSE Normalize(dtw_matrix(query, reference, w)[n][m], n, m)

(***************************************************************************)
(* Distances as numbers.                                                   *)
(***************************************************************************)
IsInf(d) == d.num = Inf
IsFinite(d) == d.num # Inf
DistEq(d, e) ==
    IF IsInf(d) \/ IsInf(e) THEN IsInf(d) /\ IsInf(e)
    ELSE d.num * e.den = e.num * d.den
DistLess(d, e) ==
    IF IsInf(d) THEN FALSE
    ELSE IF IsInf(e) THEN TRUE
    ELSE d.num * e.den < e.num * d.den
DistLeq(d, e) == DistLess(d, e) \/ DistEq(d, e)

(***************************************************************************)
(* Pitch values.  A pitch is a whole number of PitchUnit-ths of a Hertz,   *)
(* so that the linear interpolation over a gap of at most 5 frames and the *)
(* moving average over 3 frames stay exact: the smoothed pitch is kept as  *)
(* 3 times its value (the sum of the window).  A missing frame is NaN.     *)
(***************************************************************************)
NaN == -3                   \* np.nan
PitchUnit == 2 * 2 * 3 * 5
ConfidenceThreshold == 3    \* confidence_threshold = 0.3, in tenths
MaxGap == 5                 \* _interpolate_gaps(pitch, max_gap=5)
MedianWindow == 5           \* _median_filter(pitch, window=5)
PitchThreshold == 10        \* pitch_threshold = 10.0 Hz
SmoothingWindow == 3        \* smoothing_window = 3
MinDuration == 2            \* _smooth_contour(contour, min_duration=2)

\* the 1-based positions of seq whose element satisfies Test
Positions(seq, Test(_)) == {k \in 1..Len(seq) : Test(seq[k])}
IsNaN(x) == x = NaN
NotNaN(x) == x # NaN

SetMax(S) == CHOOSE x \in S : \A y \in S : y <= x
SetMin(S) == CHOOSE x \in S : \A y \in S : x <= y

(***************************************************************************)
(* PitchExtractor._interpolate_gaps                                        *)
(***************************************************************************)
\* np.interp(x, [x0, x1], [y0, y1])
Interp(x, x0, x1, y0, y1) == y0 + ((x - x0) * (y1 - y0)) \div (x1 - x0)

Mutant_interpolate_gaps(pitch, max_gap) ==
    LET not_nans_idx == Positions(pitch, NotNaN)
        Fill(k) ==
            LET prev_valid == {v \in not_nans_idx : v < k}
                next_valid == {v \in not_nans_idx : v > k}
            IN  IF prev_valid # {} /\ next_valid # {}
                THEN Interp(k, SetMax(prev_valid), SetMin(next_valid),
                            pitch[SetMax(prev_valid)],
                            pitch[SetMin(next_valid)])
                ELSE pitch[k]
    IN  [k \in 1..Len(pitch) |-> IF pitch[k] = NaN THEN Fill(k) ELSE pitch[k]]

_interpolate_gaps(pitch, max_gap) ==
    LET nans_idx == Positions(pitch, IsNaN)
        not_nans_idx == Positions(pitch, NotNaN)
        Fill(k) ==
            LET prev_valid == {v \in not_nans_idx : v < k}
                next_valid == {v \in not_nans_idx : v > k}
            IN  IF prev_valid # {} /\ next_valid # {}
                   /\ SetMin(next_valid) - SetMax(prev_valid) <= max_gap
                THEN Interp(k, SetMax(prev_valid), SetMin(next_valid),
                            pitch[SetMax(prev_valid)],
                            pitch[SetMin(next_valid)])
                ELSE pitch[k]
    IN  IF nans_idx = {} THEN pitch
        ELSE IF Cardinality(not_nans_idx) < 2 THEN pitch
        ELSE [k \in 1..Len(pitch) |->
                IF k \in nans_idx /\ k # SetMin(nans_idx)
                   /\ k # SetMax(nans_idx)
                THEN Fill(k) ELSE pitch[k]]

(***************************************************************************)
(* PitchExtractor._median_filter                                           *)
(***************************************************************************)
\* the middle one of the values of window, a sequence of odd length
Median(window) ==
    LET half == (Len(window) - 1) \div 2
    IN  CHOOSE x \in {window[k] : k \in 1..Len(window)} :
            /\ Cardinality({k \in 1..Len(window) : window[k] < x}) <= half
            /\ Cardinality({k \in 1..Len(window) : window[k] <= x}) > half

\* scipy.signal.medfilt(x, kernel_size): the window is padded with zeros
medfilt(x, kernel_size) ==
    LET half == (kernel_size - 1) \div 2
        At(k) == IF k >= 1 /\ k <= Len(x) THEN x[k] ELSE 0
    IN  [i \in 1..Len(x) |->
            Median([o \in 1..kernel_size |-> At(i + o - 1 - half)])]

_median_filter(pitch, window) ==
    LET valid_idx == Positions(pitch, NotNaN)
        valid == SelectSeq(pitch, NotNaN)
        filtered == medfilt(valid, window)
        Rank(k) == Cardinality({v \in valid_idx : v <= k})
    IN  IF Cardinality(valid_idx) > window
        THEN [k \in 1..Len(pitch) |->
                IF k \in valid_idx THEN filtered[Rank(k)] ELSE pitch[k]]
        ELSE pitch

(***************************************************************************)
(* PitchExtractor._clean_pitch, on the frames librosa.pyin returned        *)
(***************************************************************************)
_clean_pitch(frames) ==
    LET masked == [k \in 1..Len(frames) |->
                      IF frames[k].voiced_prob < ConfidenceThreshold
                         \/ ~frames[k].voiced_flag
                      THEN NaN ELSE frames[k].f0]
    IN  _median_filter(_interpolate_gaps(masked, MaxGap), MedianWindow)

(***************************************************************************)
(* ContourExtractor                                                        *)
(***************************************************************************)
\* 3 times _smooth_pitch(pitch): np.convolve(pitch, ones(3)/3, mode='same')
\* pads with zeros; a pitch shorter than the window is returned as it is
_smooth_pitch(pitch) ==
    LET half == (SmoothingWindow - 1) \div 2
        At(k) == IF k >= 1 /\ k <= Len(pitch) THEN pitch[k] ELSE 0
        RECURSIVE WindowSum(_, _)
        WindowSum(i, o) ==
            IF o > half THEN 0 ELSE At(i + o) + WindowSum(i, o + 1)
    IN  IF Len(pitch) < SmoothingWindow
        THEN [i \in 1..Len(pitch) |-> SmoothingWindow * pitch[i]]
        ELSE [i \in 1..Len(pitch) |-> WindowSum(i, -half)]

\* the maximal constant runs of contour from position k on, as
\* np.split(contour, change_idx) yields them
RECURSIVE Segments(_, _)
Segments(contour, k) ==
    IF k > Len(contour) THEN <<>>
    ELSE LET stop == IF \E e \in k..Len(contour) : contour[e] # contour[k]
                     THEN SetMin({e \in k..Len(contour) :
                                     contour[e] # contour[k]})
                     ELSE Len(contour) + 1
         IN  <<SubSeq(contour, k, stop - 1)>> \o Segments(contour, stop)

RECURSIVE MutantMergeSegments(_, _, _, _)
MutantMergeSegments(segments, s, result, min_duration) ==
    IF s > Len(segments) THEN result
    ELSE LET segment == segments[s]
             next == IF Len(segment) >= min_duration
                     THEN result \o segment
                     ELSE IF Len(result) > 0
                     THEN result \o [k \in 1..Len(segment) |->
                                        segments[s - 1][1]]
                     ELSE result \o segment
         IN  MutantMergeSegments(segments, s + 1, next, min_duration)

\* the loop of _smooth_contour over the segments from s on
RECURSIVE MergeSegments(_, _, _, _)
MergeSegments(segments, s, result, min_duration) ==
    IF s > Len(segments) THEN result
    ELSE LET segment == segments[s]
             next == IF Len(segment) >= min_duration
                     THEN result \o segment
                     ELSE IF Len(result) > 0
                     THEN result \o [k \in 1..Len(segment) |->
                                        result[Len(result)]]
                     ELSE result \o segment
         IN  MergeSegments(segments, s + 1, next, min_duration)

MutantKeep_smooth_contour(contour, min_duration) == contour

Mutant_smooth_contour(contour, min_duration) ==
    IF Len(contour) < min_duration THEN contour
    ELSE LET segments == Segments(contour, 1)
             RECURSIVE Keep(_)
             Keep(k) ==
                 IF k > Len(segments) THEN <<>>
                 ELSE (IF Len(segments[k]) >= min_duration
                       THEN segments[k] ELSE <<>>) \o Keep(k + 1)
         IN  Keep(1)

_smooth_contour(contour, min_duration) ==
    IF Len(contour) < min_duration THEN contour
    ELSE MergeSegments(Segments(contour, 1), 1, <<>>, min_duration)

extract_contour(pitch) ==
    LET pitch_valid == SelectSeq(pitch, NotNaN)
        pitch_smooth == _smooth_pitch(pitch_valid)
        threshold == SmoothingWindow * PitchThreshold * PitchUnit
        contour == [k \in 1..(Len(pitch_valid) - 1) |->
                       LET pitch_diff == pitch_smooth[k+1] - pitch_smooth[k]
                       IN  IF pitch_diff > threshold THEN 1
                           ELSE IF pitch_diff < -threshold THEN -1
                           ELSE 0]
    IN  IF Len(pitch_valid) < 2 THEN <<>>
        ELSE _smooth_contour(contour, MinDuration)

(***************************************************************************)
(* Audio.  librosa.load and librosa.pyin are outside the repository: an    *)
(* audio file either cannot be decoded or yields one frame per hop, each   *)
(* with pyin's f0, voiced_flag and voiced_probs (in tenths).               *)
(***************************************************************************)
PitchValues == {100 * PitchUnit, 140 * PitchUnit}

Unvoiced == [f0 |-> NaN, voiced_flag |-> FALSE, voiced_prob |-> 0]
Faint(p) == [f0 |-> p, voiced_flag |-> TRUE, voiced_prob |-> 2]
Voiced(p) == [f0 |-> p, voiced_flag |-> TRUE, voiced_prob |-> 9]

FrameKinds ==
    {Unvoiced, Faint(100 * PitchUnit)} \cup {Voiced(p) : p \in PitchValues}

Undecodable == [decoded |-> FALSE, frames |-> <<>>]

\* the audio files of at most L frames
Audio(L) ==
    {Undecodable} \cup
    {[decoded |-> TRUE, frames |-> f] :
        f \in UNION {[1..k -> FrameKinds] : k \in 1..L}}

\* PitchExtractor.extract_pitch of a decodable file
extract_pitch(audio) == _clean_pitch(audio.frames)

(***************************************************************************)
(* Exceptions.                                                             *)
(***************************************************************************)
\* raised by librosa.load inside extract_pitch
DecodeError ==
    [type |-> "LoadError", message |-> "audio could not be decoded"]
\* raise ValueError("Could not extract valid melody from humming")
NoMelodyError ==
    [type |-> "ValueError",
     message |-> "Could not extract valid melody from humming"]
\* raise ValueError("Unsupported signature payload type")
PayloadError ==
    [type |-> "ValueError", message |-> "Unsupported signature payload type"]
\* raised by open or pickle.load inside load_signature
UnpickleError ==
    [type |-> "UnpicklingError", message |-> "signature could not be read"]

(***************************************************************************)
(* MelodyDatabase.signatures: a dict, which keeps its keys in the order of *)
(* their first insertion; here the sequence of its values in that order.   *)
(***************************************************************************)
MelodySignature(contour, pitch, id, duration) ==
    [pitch_contour |-> contour, pitch_values |-> pitch,
     song_id |-> id, duration |-> duration]

Keys(sigs) == {sigs[k].song_id : k \in 1..Len(sigs)}
IndexOf(sigs, id) == CHOOSE k \in 1..Len(sigs) : sigs[k].song_id = id

MutantStore(sigs, id, signature) == Append(sigs, signature)

\* self.signatures[song_id] = signature
Store(sigs, id, signature) ==
    IF id \in Keys(sigs)
    THEN [sigs EXCEPT ![IndexOf(sigs, id)] = signature]
    ELSE Append(sigs, signature)

\* del melody_db.signatures[song_id]
Delete(sigs, id) ==
    LET Other(signature) == signature.song_id # id
    IN  SelectSeq(sigs, Other)

\* seq[:k]
Slice(seq, k) ==
    IF k >= 0 THEN SubSeq(seq, 1, Min(k, Len(seq)))
    ELSE SubSeq(seq, 1, Max(0, Len(seq) + k))

(***************************************************************************)
(* The inputs of the server's operations.                                  *)
(***************************************************************************)
SongIds == 1..MaxSongs
TopKs == 0..(MaxSongs + 1)
DefaultDuration == 30    \* duration: Optional[float] = 30.0

\* a contour longer than any query of the model by more than the window
LongContour == [k \in 1..(HummingWindow + MaxFrames) |-> 0]

QueryAudio == Audio(MaxFrames)
SongAudio == Audio(MaxSongFrames)

\* extract_pitch, then extract_contour, of each decodable audio file
Extraction ==
    [audio \in QueryAudio \ {Undecodable} |->
        LET pitch == extract_pitch(audio)
        IN  [pitch |-> pitch, contour |-> extract_contour(pitch)]]

\* The content of a signature file: a pickled dict with some of the four
\* keys (MelodySignature.save writes all four), a pickled MelodySignature,
\* a pickled value of another type, or bytes pickle cannot read.
AllKeys == {"pitch_contour", "pitch_values", "song_id", "duration"}

Payloads ==
    {[kind |-> "dict", keys |-> AllKeys, pitch_contour |-> c,
      pitch_values |-> <<>>, song_id |-> id, duration |-> DefaultDuration] :
        c \in Contours(MaxRefLen) \cup {LongContour}, id \in SongIds}
    \cup
    {[kind |-> "dict", keys |-> AllKeys \ {"pitch_contour", "duration"},
      pitch_contour |-> <<>>, pitch_values |-> <<>>, song_id |-> 1,
      duration |-> 0],
     [kind |-> "signature", keys |-> AllKeys, pitch_contour |-> <<1>>,
      pitch_values |-> <<>>, song_id |-> 1, duration |-> DefaultDuration],
     [kind |-> "other", keys |-> {}, pitch_contour |-> <<>>,
      pitch_values |-> <<>>, song_id |-> 1, duration |-> 0],
     [kind |-> "unreadable", keys |-> {}, pitch_contour |-> <<>>,
      pitch_values |-> <<>>, song_id |-> 1, duration |-> 0]}

Mutant_from_payload(payload, song_id) ==
    MelodySignature(payload.pitch_contour,
                    IF "pitch_values" \in payload.keys
                    THEN <<>> ELSE payload.pitch_values,
                    payload.song_id, DefaultDuration)

\* MelodySignature.from_payload, for a payload it accepts
from_payload(payload, song_id) ==
    IF payload.kind = "signature"
    THEN MelodySignature(payload.pitch_contour, payload.pitch_values,
                         payload.song_id, payload.duration)
    ELSE MelodySignature(
            IF "pitch_contour" \in payload.keys
            THEN payload.pitch_contour ELSE <<>>,
            IF "pitch_values" \in payload.keys
            THEN payload.pitch_values ELSE <<>>,
            IF "song_id" \in payload.keys THEN payload.song_id ELSE song_id,
            IF "duration" \in payload.keys THEN payload.duration ELSE 0)

(***************************************************************************)
(* HummingMatcher.match_humming                                            *)
(***************************************************************************)
MutantInsertResult(sorted, x) ==
    LET before == Cardinality({k \in 1..Len(sorted) :
                                  DistLess(sorted[k].distance, x.distance)})
    IN  SubSeq(sorted, 1, before) \o <<x>>
        \o SubSeq(sorted, before + 1, Len(sorted))

\* x put into the sorted list behind every entry that is not greater
InsertResult(sorted, x) ==
    LET before == Cardinality({k \in 1..Len(sorted) :
                                  DistLeq(sorted[k].distance, x.distance)})
    IN  SubSeq(sorted, 1, before) \o <<x>>
        \o SubSeq(sorted, before + 1, Len(sorted))

\* results.sort(key=lambda x: x[1]): list.sort is stable
RECURSIVE SortFrom(_, _, _)
SortFrom(results, k, sorted) ==
    IF k > Len(results) THEN sorted
    ELSE SortFrom(results, k + 1, InsertResult(sorted, results[k]))

MutantSortResults(results) == results

SortResults(results) == SortFrom(results, 1, <<>>)

\* the loop over self.database.signatures.items()
Compare(contour, sigs, w) ==
    [k \in 1..Len(sigs) |->
        [song_id |-> sigs[k].song_id,
         distance |-> compute_distance(contour, sigs[k].pitch_contour, w)]]

MutantEmptyContour(contour) == FALSE

\* len(contour) == 0
EmptyContour(contour) == Len(contour) = 0

\* match_humming on the contour extracted from the humming: what it raises,
\* or the list it returns; compared counts the calls of compute_distance
match_humming(contour, sigs, w, top_k) ==
    IF EmptyContour(contour)
    THEN [kind |-> "error", error |-> NoMelodyError, compared |-> 0]
    ELSE [kind |-> "results",
          results |-> Slice(SortResults(Compare(contour, sigs, w)), top_k),
          compared |-> Len(sigs)]

(***************************************************************************)
(* HummingMatcher.match_with_details                                       *)
(***************************************************************************)
DetailsTopK == 5     \* self.match_humming(humming_path, top_k=5)

MutantSimilarity(distance) ==
    IF IsInf(distance) THEN [num |-> 0, den |-> 1]
    ELSE [num |-> distance.den, den |-> distance.den + 2 * distance.num]

\* 1 / (1 + distance), as the quotient num/den; 1 / (1 + inf) is 0.0
Similarity(distance) ==
    IF IsInf(distance) THEN [num |-> 0, den |-> 1]
    ELSE [num |-> distance.den, den |-> distance.den + distance.num]

Details(matches) ==
    [k \in 1..Len(matches) |->
        [song_id |-> matches[k].song_id,
         distance |-> matches[k].distance,
         similarity_score |-> Similarity(matches[k].distance)]]

match_with_details(pitch, contour, sigs, w) ==
    LET matched == match_humming(contour, sigs, w, DetailsTopK)
    IN  IF matched.kind = "error" THEN matched
        ELSE [kind |-> "details",
              query |-> [pitch_length |-> Len(pitch),
                         contour_length |-> Len(contour),
                         valid_frames |-> Len(SelectSeq(pitch, NotNaN))],
              matches |-> Details(matched.results),
              compared |-> matched.compared]

(***************************************************************************)
(* The server.  Requests are served one at a time: an operation starts     *)
(* when the server is idle and ReturnResponse ends it.                     *)
(***************************************************************************)
NoCall == [op |-> "idle"]
NoResponse == [kind |-> "none"]

Init ==
    /\ signatures = <<>>
    /\ window_size = HummingWindow
    /\ call = NoCall
    /\ response = NoResponse
    /\ song_metadata = {}

MutantAddSong(song_id, audio, duration) ==
    /\ call = NoCall
    /\ call' = [op |-> "add_song", song_id |-> song_id]
    /\ IF ~audio.decoded
       THEN /\ response' = [kind |-> "error", error |-> DecodeError]
            /\ signatures' = Delete(signatures, song_id)
       ELSE LET signature ==
                    MelodySignature(Extraction[audio].contour,
                                    Extraction[audio].pitch,
                                    song_id, duration)
            IN  /\ signatures' = Store(signatures, song_id, signature)
                /\ response' = [kind |-> "signature",
                                signature |-> signature]
    /\ UNCHANGED <<window_size, song_metadata>>

\* MelodyDatabase.add_song
AddSong(song_id, audio, duration) ==
    /\ call = NoCall
    /\ call' = [op |-> "add_song", song_id |-> song_id]
    /\ IF ~audio.decoded
       THEN /\ response' = [kind |-> "error", error |-> DecodeError]
            /\ UNCHANGED signatures
       ELSE LET signature ==
                    MelodySignature(Extraction[audio].contour,
                                    Extraction[audio].pitch,
                                    song_id, duration)
            IN  /\ signatures' = Store(signatures, song_id, signature)
                /\ response' = [kind |-> "signature",
                                signature |-> signature]
    /\ UNCHANGED <<window_size, song_metadata>>

MutantLoadSignature(song_id, payload) ==
    /\ call = NoCall
    /\ call' = [op |-> "load_signature", song_id |-> song_id,
                payload |-> payload]
    /\ IF payload.kind \in {"unreadable", "other"}
       THEN /\ response' = [kind |-> "error", error |-> PayloadError]
            /\ UNCHANGED signatures
       ELSE LET signature == from_payload(payload, song_id)
            IN  /\ signatures' = Store(signatures, song_id, signature)
                /\ response' = [kind |-> "signature",
                                signature |-> signature]
    /\ UNCHANGED <<window_size, song_metadata>>

\* MelodyDatabase.load_signature
LoadSignature(song_id, payload) ==
    /\ call = NoCall
    /\ call' = [op |-> "load_signature", song_id |-> song_id,
                payload |-> payload]
    /\ IF payload.kind = "unreadable"
       THEN /\ response' = [kind |-> "error", error |-> UnpickleError]
            /\ UNCHANGED signatures
       ELSE IF payload.kind = "other"
       THEN /\ response' = [kind |-> "error", error |-> PayloadError]
            /\ UNCHANGED signatures
       ELSE LET signature ==
                    [from_payload(payload, song_id)
                        EXCEPT !.song_id = song_id]
            IN  /\ signatures' = Store(signatures, song_id, signature)
                /\ response' = [kind |-> "signature",
                                signature |-> signature]
    /\ UNCHANGED <<window_size, song_metadata>>

MutantDeleteSong(song_id) ==
    /\ call = NoCall
    /\ call' = [op |-> "delete_song", song_id |-> song_id]
    /\ IF song_id \notin Keys(signatures)
       THEN /\ response' = [kind |-> "json", status |-> 404,
                            error |-> "Song not found"]
            /\ song_metadata' = {}
            /\ UNCHANGED signatures
       ELSE /\ signatures' = Delete(signatures, song_id)
            /\ song_metadata' = song_metadata \ {song_id}
            /\ response' = [kind |-> "json", status |-> 200,
                            success |-> TRUE]
    /\ UNCHANGED window_size

\* DELETE /api/songs/<song_id>
DeleteSong(song_id) ==
    /\ call = NoCall
    /\ call' = [op |-> "delete_song", song_id |-> song_id]
    /\ IF song_id \notin Keys(signatures)
       THEN /\ response' = [kind |-> "json", status |-> 404,
                            error |-> "Song not found"]
            /\ UNCHANGED <<signatures, song_metadata>>
       ELSE /\ signatures' = Delete(signatures, song_id)
            /\ song_metadata' = song_metadata \ {song_id}
            /\ response' = [kind |-> "json", status |-> 200,
                            success |-> TRUE]
    /\ UNCHANGED window_size

MutantMatchHumming(audio, top_k) ==
    /\ call = NoCall
    /\ call' = [op |-> "match_humming", top_k |-> top_k,
                decoded |-> FALSE, contour |-> <<>>]
    /\ response' = [kind |-> "error", error |-> DecodeError, compared |-> 0]
    /\ signatures' = <<>>
    /\ UNCHANGED <<window_size, song_metadata>>

\* HummingMatcher.match_humming
MatchHumming(audio, top_k) ==
    /\ call = NoCall
    /\ IF ~audio.decoded
       THEN /\ call' = [op |-> "match_humming", top_k |-> top_k,
                        decoded |-> FALSE, contour |-> <<>>]
            /\ response' = [kind |-> "error", error |-> DecodeError,
                            compared |-> 0]
       ELSE /\ call' = [op |-> "match_humming", top_k |-> top_k,
                        decoded |-> TRUE,
                        contour |-> Extraction[audio].contour]
            /\ response' = match_humming(Extraction[audio].contour,
                                         signatures, window_size, top_k)
    /\ UNCHANGED <<signatures, window_size, song_metadata>>

\* 'high' if similarity_score > 0.7 else 'medium' if > 0.5 else 'low'
Confidence(similarity) ==
    IF 10 * similarity.num > 7 * similarity.den THEN "high"
    ELSE IF 10 * similarity.num > 5 * similarity.den THEN "medium"
    ELSE "low"

Enrich(matches) ==
    [k \in 1..Len(matches) |->
        [song_id |-> matches[k].song_id,
         distance |-> matches[k].distance,
         similarity_score |-> matches[k].similarity_score,
         confidence |-> Confidence(matches[k].similarity_score)]]

\* POST /api/match: upload is what the request carries as its file
ApiMatch(upload, audio, top_k) ==
    /\ call = NoCall
    /\ IF upload # "allowed"
       THEN /\ call' = [op |-> "api_match", top_k |-> top_k,
                        decoded |-> FALSE, contour |-> <<>>]
            /\ response' =
                   [kind |-> "json", status |-> 400, compared |-> 0,
                    error |-> IF upload = "missing" THEN "No file provided"
                              ELSE IF upload = "unnamed"
                              THEN "No file selected"
                              ELSE "Invalid file type"]
       ELSE IF ~audio.decoded
       THEN /\ call' = [op |-> "api_match", top_k |-> top_k,
                        decoded |-> FALSE, contour |-> <<>>]
            /\ response' = [kind |-> "json", status |-> 500,
                            compared |-> 0,
                            error |-> DecodeError.message]
       ELSE LET results == match_with_details(Extraction[audio].pitch,
                                              Extraction[audio].contour,
                                              signatures, window_size)
            IN  /\ call' = [op |-> "api_match", top_k |-> top_k,
                            decoded |-> TRUE,
                            contour |-> Extraction[audio].contour]
                /\ response' =
                       IF results.kind = "error"
                       THEN [kind |-> "json", status |-> 500,
                             compared |-> 0,
                             error |-> results.error.message]
                       ELSE [kind |-> "json", status |-> 200,
                             compared |-> results.compared,
                             query |-> results.query,
                             matches |-> Slice(Enrich(results.matches),
                                               top_k)]
    /\ UNCHANGED <<signatures, window_size, song_metadata>>

Uploads == {"missing", "unnamed", "disallowed", "allowed"}

ServerOps ==
    {"add_song", "load_signature", "delete_song", "match_humming",
     "api_match", "api_add_song", "save", "load_saved"}

\* the operation returns to its caller and the server is idle again
ReturnResponse ==
    /\ call.op \in ServerOps
    /\ call' = NoCall
    /\ response' = NoResponse
    /\ UNCHANGED <<signatures, window_size, song_metadata>>

NextServer ==
    \/ \E id \in SongIds, audio \in SongAudio :
          AddSong(id, audio, DefaultDuration)
    \/ \E id \in SongIds, payload \in Payloads : LoadSignature(id, payload)
    \/ \E id \in SongIds : DeleteSong(id)
    \/ \E audio \in QueryAudio, top_k \in TopKs : MatchHumming(audio, top_k)
    \/ \E upload \in Uploads \ {"allowed"}, top_k \in TopKs :
          ApiMatch(upload, Undecodable, top_k)
    \/ \E audio \in QueryAudio, top_k \in TopKs :
          ApiMatch("allowed", audio, top_k)
    \/ ReturnResponse

(***************************************************************************)
(* The matcher's two pure functions applied to drawn arguments.            *)
(***************************************************************************)
\* the contours of the end-to-end scenarios
ScenarioContours == {<<1, 1, 0, -1>>, <<1, -1, 1, -1>>, <<-1, 1, -1, 1>>}

DTWContours == Contours(MaxLen) \cup ScenarioContours \cup {LongContour}

DTWCalls ==
    {[op |-> "compute_distance", query |-> q, reference |-> r] :
        q \in DTWContours, r \in DTWContours}
    \cup
    {[op |-> "_contour_distance", a |-> a, b |-> b] :
        a \in ContourValues, b \in ContourValues}

InitDTW ==
    /\ signatures = <<>>
    /\ window_size \in Windows
    /\ call \in DTWCalls
    /\ response = NoResponse
    /\ song_metadata = {}

ComputeDistance ==
    /\ call.op = "compute_distance"
    /\ response = NoResponse
    /\ response' = [kind |-> "distance",
                    distance |-> compute_distance(call.query, call.reference,
                                                  window_size),
                    table |-> IF call.query = <<>> \/ call.reference = <<>>
                              THEN <<>>
                              ELSE dtw_matrix(call.query, call.reference,
                                              window_size)]
    /\ UNCHANGED <<signatures, window_size, call, song_metadata>>

ContourDistance ==
    /\ call.op = "_contour_distance"
    /\ response = NoResponse
    /\ response' = [kind |-> "cost",
                    cost |-> _contour_distance(call.a, call.b)]
    /\ UNCHANGED <<signatures, window_size, call, song_metadata>>

NextDTW == ComputeDistance \/ ContourDistance

SpecDTW == InitDTW /\ [][NextDTW]_vars

Next == NextServer \/ NextDTW

\* The server, and beside it the matcher's pure functions on drawn arguments.
Spec == (Init \/ InitDTW) /\ [][Next]_vars

(***************************************************************************)
(* Properties of DTWMatcher.compute_distance and _contour_distance.        *)
(***************************************************************************)
\* compute_distance has returned for a non-empty query and reference
Computed ==
    /\ call.op = "compute_distance"
    /\ response.kind = "distance"
    /\ call.query # <<>>
    /\ call.reference # <<>>

\* C1: for every non-empty query and reference and every window size,
\* compute_distance returns a finite distance: cell (n,m) of the cost table
\* is never left at +infinity.
C1_FinitePath ==
    Computed =>
        /\ IsFinite(response.distance)
        /\ response.table[Len(call.query)][Len(call.reference)] # Inf

\* C2: compute_distance(X, X) is exactly 0 for a non-empty contour X, and a
\* query whose contour equals the only stored contour gets a first result of
\* distance 0 and similarity 1.
C2_Identity ==
    /\ Computed /\ call.query = call.reference => response.distance.num = 0
    /\ \A k \in 1..Len(signatures) :
          /\ Len(signatures) = 1
          /\ call.op \in {"match_humming", "api_match"}
          /\ call.decoded
          /\ call.contour # <<>>
          /\ call.contour = signatures[k].pitch_contour
          /\ call.top_k >= 1
          => IF call.op = "match_humming"
             THEN /\ response.kind = "results"
                  /\ Len(response.results) = 1
                  /\ response.results[1].song_id = signatures[k].song_id
                  /\ response.results[1].distance.num = 0
             ELSE /\ response.status = 200
                  /\ Len(response.matches) = 1
                  /\ response.matches[1].song_id = signatures[k].song_id
                  /\ response.matches[1].distance.num = 0
                  /\ response.matches[1].similarity_score.num
                        = response.matches[1].similarity_score.den

\* the handler has matched a query against the one stored contour, which is
\* the query's own
C2_Witness ==
    /\ call.op = "api_match"
    /\ call.decoded
    /\ call.contour # <<>>
    /\ Len(signatures) = 1
    /\ signatures[1].pitch_contour = call.contour
    /\ response.status = 200
    /\ Len(response.matches) = 1
    /\ response.matches[1].distance.num = 0

\* C3: for non-empty contours of lengths n and m the distance returned by
\* compute_distance satisfies 0 <= table(n,m)/(n+m) <= 2.
C3_Bounded ==
    Computed =>
        /\ IsFinite(response.distance)
        /\ 0 <= response.distance.num
        /\ response.distance.num <= 2 * response.distance.den

\* The banded DTW of the specification: cell (0,0) is 0, every other border
\* cell +infinity, and cell (i,j) is cost + min of its three predecessors
\* for exactly the cells with |i-j| <= band, all other cells +infinity.
RECURSIVE BandedCell(_, _, _, _, _)
BandedCell(query, reference, band, i, j) ==
    IF i = 0 /\ j = 0 THEN 0
    ELSE IF i = 0 \/ j = 0 THEN Inf
    ELSE IF Abs(i - j) > band THEN Inf
    ELSE LET cost == IF query[i] = reference[j] THEN 0
                     ELSE IF query[i] # 0 /\ reference[j] # 0 THEN 2
                     ELSE 1
         IN  InfAdd(cost,
                    InfMin(BandedCell(query, reference, band, i - 1, j),
                    InfMin(BandedCell(query, reference, band, i, j - 1),
                           BandedCell(query, reference, band, i - 1, j - 1))))

\* C4: for non-empty contours and every window w, compute_distance equals
\* the banded DTW with band max(w, |n-m|): the same table, cell by cell, and
\* the result table(n,m)/(n+m).
C4_BandedDTW ==
    /\ Computed
    /\ window_size # NoWindow
    /\ Len(call.query) <= MaxLen + 1
    /\ Len(call.reference) <= MaxLen + 1
    => LET n == Len(call.query)
           m == Len(call.reference)
           band == Max(window_size, Abs(n - m))
       IN  /\ \A i \in 0..n, j \in 0..m :
                 response.table[i][j]
                    = BandedCell(call.query, call.reference, band, i, j)
           /\ response.distance
                 = Normalize(BandedCell(call.query, call.reference,
                                        band, n, m), n, m)

\* C5: _contour_distance(a, b) is 0 when a = b, 2 when a and b have opposite
\* signs, 1 when exactly one of them is 0, and it is symmetric.
C5_Cost ==
    call.op = "_contour_distance" /\ response.kind = "cost" =>
        /\ call.a = call.b => response.cost = 0
        /\ call.a # 0 /\ call.b = -call.a => response.cost = 2
        /\ (call.a = 0) # (call.b = 0) => response.cost = 1
        /\ response.cost = _contour_distance(call.b, call.a)

\* the cost of an upward against a downward step has been computed
C5_Witness ==
    /\ call.op = "_contour_distance"
    /\ call.a = 1
    /\ call.b = -1
    /\ response.kind = "cost"
    /\ response.cost = 2

(***************************************************************************)
(* Properties of HummingMatcher.match_humming, match_with_details and of   *)
(* the /api/match handler.                                                 *)
(***************************************************************************)
\* match_humming has returned its list
Matched == call.op = "match_humming" /\ response.kind = "results"

\* the handler has answered with the detailed matches
Answered == call.op = "api_match" /\ response.status = 200

\* the contour stored under song_id
StoredContour(song_id) ==
    signatures[IndexOf(signatures, song_id)].pitch_contour

\* C6: compute_distance with an empty query or reference returns +infinity;
\* in match_humming with a non-empty query a stored entry with an empty
\* contour gets infinite distance (similarity 0) without aborting the pass,
\* and every entry with a non-empty contour gets a finite score.
C6_EmptyPolicy ==
    /\ /\ call.op = "compute_distance"
       /\ response.kind = "distance"
       /\ call.query = <<>> \/ call.reference = <<>>
       => IsInf(response.distance)
    /\ /\ call.op = "match_humming"
       /\ call.decoded
       /\ call.contour # <<>>
       => /\ response.kind = "results"
          /\ response.compared = Len(signatures)
          /\ \A k \in 1..Len(response.results) :
                IsInf(response.results[k].distance)
                   <=> StoredContour(response.results[k].song_id) = <<>>
    /\ Answered =>
          \A k \in 1..Len(response.matches) :
             response.matches[k].similarity_score.num = 0
                <=> StoredContour(response.matches[k].song_id) = <<>>

SimLess(s, t) == s.num * t.den < t.num * s.den

\* C7 (as the code has it): every similarity score of the detailed match is
\* 1/(1+d) for the entry's distance d, lies in the closed interval [0,1], is
\* 0 exactly when d is infinite, and is strictly decreasing in d.
C7_Similarity ==
    Answered =>
        \A k \in 1..Len(response.matches) :
            LET d == response.matches[k].distance
                s == response.matches[k].similarity_score
            IN  /\ s.den > 0
                /\ 0 <= s.num
                /\ s.num <= s.den
                /\ IsFinite(d) => s.num * (d.den + d.num) = s.den * d.den
                /\ IsInf(d) <=> s.num = 0
                /\ \A j \in 1..Len(response.matches) :
                      DistLess(d, response.matches[j].distance)
                         => SimLess(response.matches[j].similarity_score, s)

\* the handler has answered with a match at a positive finite distance and
\* a match at infinite distance, whose similarity is 0
C7_Witness ==
    /\ Answered
    /\ Len(response.matches) = 2
    /\ IsFinite(response.matches[1].distance)
    /\ response.matches[1].distance.num > 0
    /\ IsInf(response.matches[2].distance)
    /\ response.matches[2].similarity_score.num = 0

\* C7 as stated: every similarity score of the detailed match lies in the
\* half-open interval (0,1], for every store content (here already for a
\* store of contours no longer than the query).
C7_HalfOpen ==
    /\ Answered
    /\ \A k \in 1..Len(signatures) :
          Len(signatures[k].pitch_contour) <= MaxRefLen
    => \A k \in 1..Len(response.matches) :
          /\ 0 < response.matches[k].similarity_score.num
          /\ response.matches[k].similarity_score.num
                <= response.matches[k].similarity_score.den

\* ascending by distance, and entries of equal distance in store order
Ranked(results) ==
    \A i, j \in 1..Len(results) :
        i < j =>
            /\ DistLeq(results[i].distance, results[j].distance)
            /\ DistEq(results[i].distance, results[j].distance)
               => IndexOf(signatures, results[i].song_id)
                     < IndexOf(signatures, results[j].song_id)

\* C8: the result list of match_humming is ordered by distance ascending
\* (similarity descending), and entries of equal distance, two infinite
\* distances included, appear in the order in which they were stored.
C8_StableOrder ==
    /\ Matched => Ranked(response.results)
    /\ Answered =>
          /\ Ranked(response.matches)
          /\ \A i, j \in 1..Len(response.matches) :
                i < j => ~SimLess(response.matches[i].similarity_score,
                                  response.matches[j].similarity_score)

\* song 2 was stored before song 1, both are at the same finite distance
\* from the query, and song 2 is returned first
C8_Witness ==
    /\ Matched
    /\ Len(signatures) = 2
    /\ signatures[1].song_id = 2
    /\ signatures[2].song_id = 1
    /\ Len(response.results) = 2
    /\ IsFinite(response.results[1].distance)
    /\ DistEq(response.results[1].distance, response.results[2].distance)
    /\ response.results[1].song_id = 2
    /\ response.results[2].song_id = 1

(***************************************************************************)
(* The server with a store of up to MaxTopKSongs songs, for the number of  *)
(* results a match returns.                                                *)
(***************************************************************************)
MaxTopKSongs == 6    \* songs in the store, one more than the built-in 5

\* signature files of one-step contours
TopKPayloads ==
    {p \in Payloads : /\ p.kind = "dict"
                      /\ p.keys = AllKeys
                      /\ p.song_id = 1
                      /\ Len(p.pitch_contour) = 1
                      /\ p.pitch_contour[1] >= 0}

\* a humming with a melody, one without a voiced frame and one that cannot
\* be decoded
TopKAudio ==
    {Undecodable,
     [decoded |-> TRUE,
      frames |-> [k \in 1..MaxFrames |-> Voiced(100 * PitchUnit)]],
     [decoded |-> TRUE, frames |-> [k \in 1..MaxFrames |-> Unvoiced]]}

TopKValues == 0..(MaxTopKSongs + 1)

NextTopK ==
    \/ /\ Len(signatures) < MaxTopKSongs
       /\ \E payload \in TopKPayloads :
             LoadSignature(Len(signatures) + 1, payload)
    \/ \E audio \in TopKAudio, top_k \in TopKValues :
          MatchHumming(audio, top_k)
    \/ \E audio \in TopKAudio, top_k \in TopKValues :
          ApiMatch("allowed", audio, top_k)
    \/ ReturnResponse

SpecTopK == Init /\ [][NextTopK]_vars

\* the full ranking of the store against the query of the call
FullRanking == SortResults(Compare(call.contour, signatures, window_size))

\* C9: for a caller-supplied k >= 0 and a store of s entries a match returns
\* exactly min(k, s) results, the k best of the full ranking, from
\* match_humming and from the handler's detailed match, k > 5 included.
C9_TopK ==
    /\ Matched =>
          /\ Len(response.results) = Min(call.top_k, Len(signatures))
          /\ response.results = Slice(FullRanking, call.top_k)
    /\ Answered =>
          /\ Len(response.matches) = Min(call.top_k, Len(signatures))
          /\ \A k \in 1..Len(response.matches) :
                /\ response.matches[k].song_id = FullRanking[k].song_id
                /\ response.matches[k].distance = FullRanking[k].distance

\* C10: when the contour extracted from the query is empty, match_humming
\* and the detailed match fail with the no-melody error before any distance
\* is computed and return no result list; the outcome differs from that of
\* an audio decode failure.
C10_NoMelody ==
    /\ call.op = "match_humming" /\ call.decoded /\ call.contour = <<>>
       => response = [kind |-> "error", error |-> NoMelodyError,
                      compared |-> 0]
    /\ call.op = "api_match" /\ call.decoded /\ call.contour = <<>>
       => /\ response.status = 500
          /\ response.error = NoMelodyError.message
          /\ response.compared = 0
          /\ "matches" \notin DOMAIN response
    /\ call.op = "match_humming" /\ ~call.decoded
       => /\ response.kind = "error"
          /\ response.error = DecodeError
          /\ response.error # NoMelodyError
    /\ call.op = "api_match" /\ ~call.decoded /\ response.status = 500
       => /\ response.error = DecodeError.message
          /\ response.error # NoMelodyError.message

\* a humming without a melody has been matched against a store that is not
\* empty, and the handler has answered with the no-melody error
C10_Witness ==
    /\ call.op = "api_match"
    /\ call.decoded
    /\ call.contour = <<>>
    /\ Len(signatures) >= 1
    /\ response.status = 500
    /\ response.error = NoMelodyError.message

(***************************************************************************)
(* A matching pass of one request thread and a store mutation of another.  *)
(* The loop of match_humming draws the entries from the iterator of        *)
(* signatures.items() one at a time; a dict iterator remembers the size    *)
(* the dict had when it was created and raises RuntimeError from next()    *)
(* when the size has changed.  A single dict operation is atomic.          *)
(***************************************************************************)
\* raised by next() of the iterator of signatures.items()
RuntimeError ==
    [type |-> "RuntimeError",
     message |-> "dictionary changed size during iteration"]

\* the hummings of the concurrent passes
PassAudio == {audio \in TopKAudio : audio.decoded}

\* match_humming up to the head of its loop: the contour is extracted and
\* the iterator is created
StartPass(audio, top_k) ==
    /\ call = NoCall
    /\ audio.decoded
    /\ ~EmptyContour(Extraction[audio].contour)
    /\ call' = [op |-> "matching_pass", top_k |-> top_k, decoded |-> TRUE,
                contour |-> Extraction[audio].contour,
                used |-> Len(signatures), pos |-> 0, results |-> <<>>,
                mutation |-> "none"]
    /\ response' = NoResponse
    /\ UNCHANGED <<signatures, window_size, song_metadata>>

\* one round of the loop: next() of the iterator, then the loop's body or,
\* at the end of the dict, the sort and the return
PassStep ==
    /\ call.op = "matching_pass"
    /\ response = NoResponse
    /\ IF Len(signatures) # call.used
       THEN /\ response' = [kind |-> "error", error |-> RuntimeError,
                            compared |-> call.pos]
            /\ UNCHANGED call
       ELSE IF call.pos >= Len(signatures)
       THEN /\ response' = [kind |-> "results",
                            results |-> Slice(SortResults(call.results),
                                              call.top_k),
                            compared |-> call.pos]
            /\ UNCHANGED call
       ELSE LET signature == signatures[call.pos + 1]
                distance == compute_distance(call.contour,
                                             signature.pitch_contour,
                                             window_size)
            IN  /\ call' = [call EXCEPT
                               !.pos = @ + 1,
                               !.results =
                                   Append(@, [song_id |-> signature.song_id,
                                              distance |-> distance])]
                /\ UNCHANGED response
    /\ UNCHANGED <<signatures, window_size, song_metadata>>

\* the pass is under way and no other request has changed the store yet
PassUnderWay ==
    /\ call.op = "matching_pass"
    /\ response = NoResponse
    /\ call.mutation = "none"

\* MelodyDatabase.add_song in another request thread, while the pass runs
ConcurrentAddSong(song_id, audio, duration) ==
    /\ PassUnderWay
    /\ audio.decoded
    /\ signatures' =
          Store(signatures, song_id,
                MelodySignature(Extraction[audio].contour,
                                Extraction[audio].pitch, song_id, duration))
    /\ call' = [call EXCEPT !.mutation = "add_song"]
    /\ UNCHANGED <<window_size, response, song_metadata>>

\* MelodyDatabase.load_signature in another thread, while the pass runs
ConcurrentLoadSignature(song_id, payload) ==
    /\ PassUnderWay
    /\ payload.kind \in {"dict", "signature"}
    /\ signatures' =
          Store(signatures, song_id,
                [from_payload(payload, song_id) EXCEPT !.song_id = song_id])
    /\ call' = [call EXCEPT !.mutation = "load_signature"]
    /\ UNCHANGED <<window_size, response, song_metadata>>

\* DELETE /api/songs/<song_id> in another thread, while the pass runs
ConcurrentDeleteSong(song_id) ==
    /\ PassUnderWay
    /\ song_id \in Keys(signatures)
    /\ signatures' = Delete(signatures, song_id)
    /\ song_metadata' = song_metadata \ {song_id}
    /\ call' = [call EXCEPT !.mutation = "delete_song"]
    /\ UNCHANGED <<window_size, response>>

NextConcurrent ==
    \/ \E id \in SongIds, payload \in TopKPayloads :
          LoadSignature(id, payload)
    \/ ReturnResponse
    \/ \E audio \in PassAudio : StartPass(audio, DetailsTopK)
    \/ PassStep
    \/ \E id \in SongIds, audio \in SongAudio :
          ConcurrentAddSong(id, audio, DefaultDuration)
    \/ \E id \in SongIds, payload \in TopKPayloads :
          ConcurrentLoadSignature(id, payload)
    \/ \E id \in SongIds : ConcurrentDeleteSong(id)

SpecConcurrent == Init /\ [][NextConcurrent]_vars

\* C11: a matching pass that runs concurrently with a store mutation of
\* another request thread (add_song, load_signature, delete_song) always
\* completes without failure and returns only entries of the store, under
\* every interleaving of its iteration steps with the mutation.
C11_PassCompletes ==
    call.op = "matching_pass" /\ response # NoResponse =>
        /\ response.kind = "results"
        /\ \A k \in 1..Len(response.results) :
              response.results[k].song_id \in Keys(signatures)

(***************************************************************************)
(* Properties of the Signature Store.                                      *)
(***************************************************************************)
\* C12: no query operation mutates the store: a step of match_humming or of
\* the detailed match, successful or failed, leaves the identifiers of the
\* store and every stored signature as they were.
C12_QueriesReadOnly ==
    [][call'.op \in {"match_humming", "api_match"}
          => signatures' = signatures]_vars

\* match_humming has returned its results from a store of two songs
C12_Witness ==
    /\ Matched
    /\ Len(signatures) = 2
    /\ Len(response.results) >= 1

(***************************************************************************)
(* The operations on the Signature Store: MelodyDatabase, the signature    *)
(* files of MelodySignature.save, and the /api/songs handlers.             *)
(***************************************************************************)
None == [kind |-> "None"]

\* MelodyDatabase.get_signature: self.signatures.get(song_id)
get_signature(sigs, song_id) ==
    IF song_id \in Keys(sigs) THEN sigs[IndexOf(sigs, song_id)] ELSE None

\* MelodyDatabase.list_songs: list(self.signatures.keys())
list_songs(sigs) == [k \in 1..Len(sigs) |-> sigs[k].song_id]

Mutant_save(signature) ==
    << <<"pitch_contour", signature.pitch_contour>>,
       <<"pitch", signature.pitch_values>>,
       <<"song_id", signature.song_id>>,
       <<"duration", signature.duration>> >>

\* MelodySignature.save: the dict it hands to pickle.dump, written to the
\* file as the sequence of its items
save(signature) ==
    << <<"pitch_contour", signature.pitch_contour>>,
       <<"pitch_values", signature.pitch_values>>,
       <<"song_id", signature.song_id>>,
       <<"duration", signature.duration>> >>

\* pickle.load of a file save has written: the dict of the file's items
pickle_load(file) ==
    LET Has(key) == \E k \in 1..Len(file) : file[k][1] = key
        Value(key) == file[CHOOSE k \in 1..Len(file) : file[k][1] = key][2]
    IN  [kind |-> "dict",
         keys |-> {file[k][1] : k \in 1..Len(file)},
         pitch_contour |-> IF Has("pitch_contour")
                           THEN Value("pitch_contour") ELSE <<>>,
         pitch_values |-> IF Has("pitch_values")
                          THEN Value("pitch_values") ELSE <<>>,
         song_id |-> IF Has("song_id") THEN Value("song_id") ELSE 0,
         duration |-> IF Has("duration") THEN Value("duration") ELSE 0]

\* signature.save(signature_path) of a stored signature
Save(song_id) ==
    /\ call = NoCall
    /\ song_id \in Keys(signatures)
    /\ call' = [op |-> "save", song_id |-> song_id,
                saved |-> get_signature(signatures, song_id)]
    /\ response' = [kind |-> "file",
                    file |-> save(get_signature(signatures, song_id))]
    /\ UNCHANGED <<signatures, window_size, song_metadata>>

\* MelodyDatabase.load_signature(song_id, signature_path) of the file that
\* save has just written
LoadSaved(song_id) ==
    /\ call.op = "save"
    /\ response.kind = "file"
    /\ LET signature ==
               [from_payload(pickle_load(response.file), song_id)
                   EXCEPT !.song_id = song_id]
       IN  /\ call' = [op |-> "load_saved", song_id |-> song_id,
                       saved |-> call.saved]
           /\ signatures' = Store(signatures, song_id, signature)
           /\ response' = [kind |-> "signature", signature |-> signature]
    /\ UNCHANGED <<window_size, song_metadata>>

\* POST /api/songs: song_id is the uuid4 the handler draws, an identifier
\* that is not in use
ApiAddSong(upload, audio, song_id) ==
    /\ call = NoCall
    /\ song_id \notin Keys(signatures) \cup song_metadata
    /\ call' = [op |-> "api_add_song", song_id |-> song_id]
    /\ IF upload # "allowed"
       THEN /\ response' =
                   [kind |-> "json", status |-> 400,
                    error |-> IF upload = "missing" THEN "No file provided"
                              ELSE IF upload = "unnamed"
                              THEN "No file selected"
                              ELSE "Invalid file type"]
            /\ UNCHANGED <<signatures, song_metadata>>
       ELSE IF ~audio.decoded
       THEN /\ response' = [kind |-> "json", status |-> 500,
                            error |-> DecodeError.message]
            /\ UNCHANGED <<signatures, song_metadata>>
       ELSE LET signature ==
                    MelodySignature(Extraction[audio].contour,
                                    Extraction[audio].pitch,
                                    song_id, DefaultDuration)
            IN  /\ signatures' = Store(signatures, song_id, signature)
                /\ song_metadata' = song_metadata \cup {song_id}
                /\ response' =
                       [kind |-> "json", status |-> 201, success |-> TRUE,
                        song_id |-> song_id,
                        contour_length |-> Len(signature.pitch_contour)]
    /\ UNCHANGED window_size

\* the audio files songs are added from: one that cannot be decoded, one
\* with a melody, and one whose second frame is missing
StoreAudio ==
    {Undecodable,
     [decoded |-> TRUE,
      frames |-> <<Voiced(100 * PitchUnit), Voiced(140 * PitchUnit)>>],
     [decoded |-> TRUE, frames |-> <<Voiced(140 * PitchUnit), Unvoiced>>]}

\* The signature files that are loaded: those of Payloads with the contours
\* <<>> and <<1>> and the identifiers 1 and 2, a dict without the key
\* song_id, and a dict whose pitch values have a missing frame.
StorePayloads ==
    {p \in Payloads : /\ p.pitch_contour \in {<<>>, <<1>>}
                      /\ p.song_id \in {1, 2}}
    \cup
    {[kind |-> "dict", keys |-> AllKeys \ {"song_id"},
      pitch_contour |-> <<1>>, pitch_values |-> <<>>, song_id |-> 0,
      duration |-> DefaultDuration],
     [kind |-> "dict", keys |-> AllKeys, pitch_contour |-> <<-1>>,
      pitch_values |-> <<140 * PitchUnit, NaN, 100 * PitchUnit>>,
      song_id |-> 1, duration |-> DefaultDuration]}

NextStore ==
    \/ \E id \in SongIds, audio \in StoreAudio :
          AddSong(id, audio, DefaultDuration)
    \/ \E upload \in Uploads \ {"allowed"}, id \in SongIds :
          ApiAddSong(upload, Undecodable, id)
    \/ \E audio \in StoreAudio, id \in SongIds :
          ApiAddSong("allowed", audio, id)
    \/ \E id \in SongIds, payload \in StorePayloads :
          LoadSignature(id, payload)
    \/ \E id \in SongIds : DeleteSong(id)
    \/ \E id \in SongIds : Save(id)
    \/ \E id \in SongIds : LoadSaved(id)
    \/ ReturnResponse

SpecStore == Init /\ [][NextStore]_vars

\* C13: a failed add_song (extraction raises) leaves the store exactly as
\* it was: an existing entry under the identifier keeps its signature and
\* no entry is created; the entry is replaced only when the add succeeds.
C13_FailedAddKeepsStore ==
    [][/\ call'.op = "add_song" =>
             IF response'.kind = "error"
             THEN /\ signatures' = signatures
                  /\ song_metadata' = song_metadata
             ELSE get_signature(signatures', call'.song_id)
                     = response'.signature
       /\ call'.op = "api_add_song" =>
             IF response'.status # 201
             THEN /\ signatures' = signatures
                  /\ song_metadata' = song_metadata
             ELSE call'.song_id \in Keys(signatures')
      ]_vars

\* add_song has failed for an identifier that has an entry in the store
C13_Witness ==
    /\ call.op = "add_song"
    /\ response.kind = "error"
    /\ call.song_id \in Keys(signatures)

\* C14: identifiers in the store are unique (list_songs never holds one
\* twice); a successful add_song(id, ...) makes get_signature(id) the new
\* signature, whose song_id is id, replaces a previous entry of id and
\* leaves every other entry unchanged.
C14_UniqueIdentifiers ==
    /\ [](\A i, j \in 1..Len(signatures) :
             list_songs(signatures)[i] = list_songs(signatures)[j] => i = j)
    /\ [][call'.op = "add_song" /\ response'.kind = "signature" =>
             /\ get_signature(signatures', call'.song_id)
                   = response'.signature
             /\ response'.signature.song_id = call'.song_id
             /\ Keys(signatures') = Keys(signatures) \cup {call'.song_id}
             /\ Len(signatures') = Cardinality(Keys(signatures'))
             /\ \A other \in SongIds \ {call'.song_id} :
                   get_signature(signatures', other)
                      = get_signature(signatures, other)
         ]_vars

\* add_song has succeeded for the identifier that was stored first, with
\* another song stored after it: the entry was replaced
C14_Witness ==
    /\ call.op = "add_song"
    /\ response.kind = "signature"
    /\ Len(signatures) = 2
    /\ signatures[1].song_id = call.song_id
    /\ signatures[1] = response.signature

\* C15: removing a stored identifier makes get_signature(id) absent and
\* drops id from list_songs while every other entry is unchanged; removing
\* an identifier that is not stored reports not-found and changes neither
\* the store nor the metadata.
C15_Remove ==
    [][call'.op = "delete_song" =>
          IF call'.song_id \in Keys(signatures)
          THEN /\ response'.status = 200
               /\ get_signature(signatures', call'.song_id) = None
               /\ list_songs(signatures')
                     = LET Other(id) == id # call'.song_id
                       IN  SelectSeq(list_songs(signatures), Other)
               /\ \A other \in SongIds \ {call'.song_id} :
                     get_signature(signatures', other)
                        = get_signature(signatures, other)
          ELSE /\ response'.status = 404
               /\ signatures' = signatures
               /\ song_metadata' = song_metadata
      ]_vars

\* a removal has reported not-found while the store and the metadata hold
\* another song
C15_Witness ==
    /\ call.op = "delete_song"
    /\ response.status = 404
    /\ signatures # <<>>
    /\ song_metadata # {}

\* the value load_signature gives a field of the record
Loaded(payload, key, default) ==
    IF payload.kind = "signature" \/ key \in payload.keys
    THEN payload[key] ELSE default

\* C16: load_signature(id, record) inserts under id a signature whose
\* song_id is id, whatever identifier the record holds (another one, or
\* none), and runs no extraction: contour and pitch are the record's.
C16_LoaderKey ==
    call.op = "load_signature" /\ response.kind = "signature" =>
        /\ response.signature.song_id = call.song_id
        /\ get_signature(signatures, call.song_id) = response.signature
        /\ response.signature.pitch_contour
              = Loaded(call.payload, "pitch_contour", <<>>)
        /\ response.signature.pitch_values
              = Loaded(call.payload, "pitch_values", <<>>)

\* a record that holds another identifier, and a contour that is not the
\* one extraction would give its pitch values, has been loaded
C16_Witness ==
    /\ call.op = "load_signature"
    /\ response.kind = "signature"
    /\ "song_id" \in call.payload.keys
    /\ call.payload.song_id # call.song_id
    /\ response.signature.song_id = call.song_id
    /\ response.signature.pitch_contour
          # extract_contour(response.signature.pitch_values)

\* C17: saving a signature S and loading the saved record yields a
\* signature whose contour, pitch values (missing frames included) and
\* duration are those of S; the identifier is the loader's key.
C17_RoundTrip ==
    call.op = "load_saved" =>
        /\ response.kind = "signature"
        /\ response.signature.pitch_contour = call.saved.pitch_contour
        /\ response.signature.pitch_values = call.saved.pitch_values
        /\ response.signature.duration = call.saved.duration
        /\ response.signature.song_id = call.song_id
        /\ get_signature(signatures, call.song_id) = response.signature

\* a signature with a contour and with a missing frame among its pitch
\* values has been saved and loaded under another identifier
C17_Witness ==
    /\ call.op = "load_saved"
    /\ call.saved.pitch_contour # <<>>
    /\ \E k \in 1..Len(call.saved.pitch_values) :
          call.saved.pitch_values[k] = NaN
    /\ call.song_id # call.saved.song_id
    /\ response.signature.pitch_values = call.saved.pitch_values

\* C18: loading accepts a signature object and a dict; of a dict each
\* absent field defaults (contour and pitch to the empty sequence, duration
\* to 0) and each present field is taken unchanged; a payload of another
\* type is rejected with an error and the store is left unchanged.
C18_Payloads ==
    [][call'.op = "load_signature" =>
          IF call'.payload.kind \in {"signature", "dict"}
          THEN /\ response'.kind = "signature"
               /\ response'.signature.pitch_contour
                     = Loaded(call'.payload, "pitch_contour", <<>>)
               /\ response'.signature.pitch_values
                     = Loaded(call'.payload, "pitch_values", <<>>)
               /\ response'.signature.duration
                     = Loaded(call'.payload, "duration", 0)
               /\ get_signature(signatures', call'.song_id)
                     = response'.signature
          ELSE /\ response'.kind = "error"
               /\ call'.payload.kind = "other"
                     => response'.error = PayloadError
               /\ signatures' = signatures
      ]_vars

\* a dict without contour and duration has been loaded with the defaults
C18_Witness ==
    /\ call.op = "load_signature"
    /\ call.payload.kind = "dict"
    /\ "pitch_contour" \notin call.payload.keys
    /\ "duration" \notin call.payload.keys
    /\ response.kind = "signature"
    /\ response.signature.pitch_contour = <<>>
    /\ response.signature.duration = 0

(***************************************************************************)
(* The startup of App.py: the loop over the audio files of the database    *)
(* folder, which loads the signature file of a song when there is one and  *)
(* adds the song from its audio otherwise.  An exception of the loop's     *)
(* body is caught nowhere: it ends the program before app.run.             *)
(***************************************************************************)
MaxFiles == 3        \* audio files in the database folder

\* the audio of a song of the database folder that can be decoded
StartupAudio ==
    [decoded |-> TRUE,
     frames |-> <<Voiced(100 * PitchUnit), Voiced(140 * PitchUnit)>>]

\* What the folder holds for one audio file: whether song_metadata knows
\* the file (only then can <song_id>.sig exist), the content of the
\* signature file, and the audio.
StartupFileKinds ==
    {[known |-> TRUE, sig |-> "dict", audio |-> StartupAudio],
     [known |-> TRUE, sig |-> "unreadable", audio |-> StartupAudio],
     [known |-> TRUE, sig |-> "other", audio |-> StartupAudio],
     [known |-> TRUE, sig |-> "none", audio |-> StartupAudio],
     [known |-> FALSE, sig |-> "none", audio |-> StartupAudio],
     [known |-> FALSE, sig |-> "none", audio |-> Undecodable]}

\* the content of the signature file of the file-th song
StartupPayload(file, song_id) ==
    [kind |-> file.sig,
     keys |-> IF file.sig = "dict" THEN AllKeys ELSE {},
     pitch_contour |-> IF file.sig = "dict" THEN <<1>> ELSE <<>>,
     pitch_values |-> <<>>, song_id |-> song_id,
     duration |-> IF file.sig = "dict" THEN DefaultDuration ELSE 0]

\* the folders of at most MaxFiles audio files; the k-th file is song k
StartupFolders ==
    UNION {[1..n -> StartupFileKinds] : n \in 1..MaxFiles}

InitStartup ==
    /\ signatures = <<>>
    /\ window_size = HummingWindow
    /\ call \in {[op |-> "startup", files |-> files, pos |-> 0,
                  loaded_count |-> 0] : files \in StartupFolders}
    /\ response = NoResponse
    /\ song_metadata = {k \in 1..Len(call.files) : call.files[k].known}

\* one round of the loop 'for file_path in audio_files', or its end
StartupStep ==
    /\ call.op = "startup"
    /\ response = NoResponse
    /\ IF call.pos >= Len(call.files)
       THEN /\ response' = [kind |-> "started",
                            songs |-> list_songs(signatures),
                            loaded_count |-> call.loaded_count]
            /\ UNCHANGED <<signatures, call, song_metadata>>
       ELSE LET song_id == call.pos + 1
                file == call.files[song_id]
                payload == StartupPayload(file, song_id)
            IN  IF file.sig = "unreadable"
                THEN /\ response' = [kind |-> "error",
                                     error |-> UnpickleError]
                     /\ UNCHANGED <<signatures, call, song_metadata>>
                ELSE IF file.sig = "other"
                THEN /\ response' = [kind |-> "error",
                                     error |-> PayloadError]
                     /\ UNCHANGED <<signatures, call, song_metadata>>
                ELSE IF file.sig = "dict"
                THEN /\ signatures' =
                           Store(signatures, song_id,
                                 [from_payload(payload, song_id)
                                     EXCEPT !.song_id = song_id])
                     /\ call' = [call EXCEPT !.pos = @ + 1]
                     /\ UNCHANGED <<response, song_metadata>>
                ELSE IF ~file.audio.decoded
                THEN /\ response' = [kind |-> "error",
                                     error |-> DecodeError]
                     /\ UNCHANGED <<signatures, call, song_metadata>>
                ELSE /\ signatures' =
                           Store(signatures, song_id,
                                 MelodySignature(
                                     Extraction[file.audio].contour,
                                     Extraction[file.audio].pitch,
                                     song_id, DefaultDuration))
                     /\ song_metadata' = song_metadata \cup {song_id}
                     /\ call' = [call EXCEPT !.pos = @ + 1,
                                             !.loaded_count = @ + 1]
                     /\ UNCHANGED response
    /\ UNCHANGED window_size

NextStartup == StartupStep

SpecStartup == InitStartup /\ [][NextStartup]_vars

\* the songs of the folder whose signature file is a valid record
ValidRecords(files) == {k \in 1..Len(files) : files[k].sig = "dict"}

\* the songs of the folder whose signature file is corrupt or unreadable
CorruptRecords(files) ==
    {k \in 1..Len(files) : files[k].sig \in {"unreadable", "other"}}

\* the failures the startup reports: the exception that ends it, if any
ReportedFailures == IF response.kind = "error" THEN 1 ELSE 0

\* C19: when the startup batch load meets corrupt or unreadable signature
\* records, loading continues past each of them: afterwards list_songs
\* holds every valid identifier and the number of reported failures is the
\* number of corrupt records.
C19_BatchLoad ==
    call.op = "startup" /\ response # NoResponse =>
        /\ ValidRecords(call.files) \subseteq Keys(signatures)
        /\ ReportedFailures = Cardinality(CorruptRecords(call.files))

(***************************************************************************)
(* ContourExtractor.extract_contour and _smooth_contour applied to drawn   *)
(* arguments.                                                              *)
(***************************************************************************)
MaxPitchFrames == 5  \* frames of a pitch sequence handed to extract_contour

\* a missing frame, and pitches 5 Hz and 40 Hz apart
FramePitches == {NaN, 100 * PitchUnit, 105 * PitchUnit, 140 * PitchUnit}

ContourCalls ==
    {[op |-> "extract_contour", pitch |-> pitch] :
        pitch \in UNION {[1..n -> FramePitches] : n \in 0..MaxPitchFrames}}
    \cup
    {[op |-> "_smooth_contour", contour |-> contour] :
        contour \in Contours(MaxLen + 1)}

InitContour ==
    /\ signatures = <<>>
    /\ window_size = HummingWindow
    /\ call \in ContourCalls
    /\ response = NoResponse
    /\ song_metadata = {}

ExtractContour ==
    /\ call.op = "extract_contour"
    /\ response = NoResponse
    /\ response' = [kind |-> "contour",
                    contour |-> extract_contour(call.pitch)]
    /\ UNCHANGED <<signatures, window_size, call, song_metadata>>

SmoothContour ==
    /\ call.op = "_smooth_contour"
    /\ response = NoResponse
    /\ response' = [kind |-> "contour",
                    contour |-> _smooth_contour(call.contour, MinDuration)]
    /\ UNCHANGED <<signatures, window_size, call, song_metadata>>

NextContour == ExtractContour \/ SmoothContour

SpecContour == InitContour /\ [][NextContour]_vars

\* C20: for a pitch sequence with v valid (non-missing) frames
\* extract_contour returns exactly max(0, v-1) elements, each of -1, 0, +1;
\* the run-merging step never changes the length.
C20_LengthLaw ==
    /\ call.op = "extract_contour" /\ response.kind = "contour" =>
          /\ Len(response.contour)
                = Max(0, Cardinality(Positions(call.pitch, NotNaN)) - 1)
          /\ \A k \in 1..Len(response.contour) :
                response.contour[k] \in ContourValues
    /\ call.op = "_smooth_contour" /\ response.kind = "contour" =>
          /\ Len(response.contour) = Len(call.contour)
          /\ \A k \in 1..Len(response.contour) :
                response.contour[k] \in ContourValues

\* a contour with a run of one step between longer runs has been merged
\* into a contour of the same length
C20_Witness ==
    /\ call.op = "_smooth_contour"
    /\ response.kind = "contour"
    /\ call.contour = <<1, 1, -1, 0>>
    /\ response.contour # call.contour
    /\ Len(response.contour) = 4

(***************************************************************************)
(* PitchExtractor._interpolate_gaps on its own: one call per behaviour,    *)
(* over the pitch sequences of at most MaxGapFrames frames and the         *)
(* sequence with a run of 2 * max_gap missing frames.                      *)
(***************************************************************************)
MaxGapFrames == 8  \* frames of a pitch sequence handed to _interpolate_gaps

\* a missing frame and two pitches
GapPitches == {NaN, 100 * PitchUnit, 140 * PitchUnit}

\* the values of the parameter max_gap: a small one and the default
MaxGaps == {2, MaxGap}

\* a run of 2 * max_gap missing frames between two frames of equal pitch
LongGap ==
    [k \in 1..(2 * MaxGap + 2) |->
        IF k \in {1, 2 * MaxGap + 2} THEN 100 * PitchUnit ELSE NaN]

GapCalls ==
    {[op |-> "_interpolate_gaps", pitch |-> pitch, max_gap |-> max_gap] :
        pitch \in UNION {[1..n -> GapPitches] : n \in 0..MaxGapFrames}
                  \cup {LongGap},
        max_gap \in MaxGaps}

InitGaps ==
    /\ signatures = <<>>
    /\ window_size = HummingWindow
    /\ call \in GapCalls
    /\ response = NoResponse
    /\ song_metadata = {}

InterpolateGaps ==
    /\ call.op = "_interpolate_gaps"
    /\ response = NoResponse
    /\ response' = [kind |-> "pitch",
                    pitch |-> _interpolate_gaps(call.pitch, call.max_gap)]
    /\ UNCHANGED <<signatures, window_size, call, song_metadata>>

NextGaps == InterpolateGaps

SpecGaps == InitGaps /\ [][NextGaps]_vars

\* the maximal runs of missing frames of pitch, as <<first, last>>
MissingRuns(pitch) ==
    {run \in (1..Len(pitch)) \X (1..Len(pitch)) :
        /\ run[1] <= run[2]
        /\ \A k \in run[1]..run[2] : pitch[k] = NaN
        /\ run[1] = 1 \/ pitch[run[1] - 1] # NaN
        /\ run[2] = Len(pitch) \/ pitch[run[2] + 1] # NaN}

Interpolated == call.op = "_interpolate_gaps" /\ response.kind = "pitch"

\* C21: for a pitch sequence with a single missing run of k frames,
\* 1 <= k <= max_gap, bounded on both sides by valid frames of equal value
\* v, _interpolate_gaps returns a sequence in which every frame of the run
\* equals v.
C21_ShortGapFilled ==
    Interpolated =>
        \A run \in MissingRuns(call.pitch) :
            /\ MissingRuns(call.pitch) = {run}
            /\ run[2] - run[1] + 1 <= call.max_gap
            /\ run[1] > 1 /\ run[2] < Len(call.pitch)
            /\ call.pitch[run[1] - 1] = call.pitch[run[2] + 1]
            => \A k \in run[1]..run[2] :
                  response.pitch[k] = call.pitch[run[1] - 1]

\* C26: _interpolate_gaps fills only short interior gaps: every frame of a
\* missing run longer than max_gap stays missing, every frame of an edge run
\* (no valid frame before it or none after it) stays missing, every frame
\* that was valid keeps its value, and the length is unchanged.
C26_OnlyShortInteriorGaps ==
    Interpolated =>
        /\ Len(response.pitch) = Len(call.pitch)
        /\ \A k \in 1..Len(call.pitch) :
              call.pitch[k] # NaN => response.pitch[k] = call.pitch[k]
        /\ \A run \in MissingRuns(call.pitch) :
              \/ run[2] - run[1] + 1 > call.max_gap
              \/ run[1] = 1
              \/ run[2] = Len(call.pitch)
              => \A k \in run[1]..run[2] : response.pitch[k] = NaN

\* a sequence with an edge run, a short interior run and an interior run
\* longer than max_gap has been interpolated: only the short run is filled
C26_Witness ==
    /\ Interpolated
    /\ call.max_gap = 2
    /\ call.pitch = <<NaN, 100 * PitchUnit, NaN, 100 * PitchUnit,
                      NaN, NaN, NaN, 140 * PitchUnit>>
    /\ response.pitch = <<NaN, 100 * PitchUnit, 100 * PitchUnit,
                          100 * PitchUnit, NaN, NaN, NaN, 140 * PitchUnit>>

(***************************************************************************)
(* ContourExtractor.extract_contour of a pitch sequence and of the same    *)
(* sequence moved to another register.                                     *)
(***************************************************************************)
MaxRegisterFrames == 4  \* frames of a pitch sequence that is transposed

\* a missing frame and pitches of 10, 20 and 60 Hz
RegisterPitches == {NaN, 10 * PitchUnit, 20 * PitchUnit, 60 * PitchUnit}

\* the offsets, in Hz, added to every valid frame
Offsets == {-5 * PitchUnit, 40 * PitchUnit, 90 * PitchUnit}

\* pitch + offset on the valid frames: NaN + offset is NaN
Shift(pitch, offset) ==
    [k \in 1..Len(pitch) |->
        IF pitch[k] = NaN THEN NaN ELSE pitch[k] + offset]

RegisterCalls ==
    {[op |-> "transposed", pitch |-> pitch, offset |-> offset] :
        pitch \in UNION {[1..n -> RegisterPitches] :
                            n \in 0..MaxRegisterFrames},
        offset \in Offsets}

InitRegister ==
    /\ signatures = <<>>
    /\ window_size = HummingWindow
    /\ call \in RegisterCalls
    /\ response = NoResponse
    /\ song_metadata = {}

\* extract_contour(pitch) and extract_contour(pitch + offset)
ExtractTransposed ==
    /\ call.op = "transposed"
    /\ response = NoResponse
    /\ response' =
          [kind |-> "contours",
           contour |-> extract_contour(call.pitch),
           transposed |-> extract_contour(Shift(call.pitch, call.offset))]
    /\ UNCHANGED <<signatures, window_size, call, song_metadata>>

NextRegister == ExtractTransposed

SpecRegister == InitRegister /\ [][NextRegister]_vars

C27_ConstantPitch ==
    /\ call.op = "extract_contour"
    /\ response.kind = "contour"
    /\ Cardinality(Positions(call.pitch, NotNaN)) >= 2
    /\ \A j, k \in Positions(call.pitch, NotNaN) : call.pitch[j] = call.pitch[k]
    => \A k \in 1..Len(response.contour) : response.contour[k] = 0

\* the maximal constant-value runs of contour, as <<first, last>>
Runs(contour) ==
    {run \in (1..Len(contour)) \X (1..Len(contour)) :
        /\ run[1] <= run[2]
        /\ \A k \in run[1]..run[2] : contour[k] = contour[run[1]]
        /\ run[1] = 1 \/ contour[run[1] - 1] # contour[run[1]]
        /\ run[2] = Len(contour) \/ contour[run[2] + 1] # contour[run[1]]}

Smoothed == call.op = "_smooth_contour" /\ response.kind = "contour"

\* C24 (as stated): every run of the classified sequence shorter than
\* min_duration that is not the first run is replaced, element for element,
\* by the value of the immediately preceding run of that sequence; a short
\* first run and the runs of length >= min_duration are unchanged.
C24_PrecedingRun ==
    Smoothed =>
        /\ Len(response.contour) = Len(call.contour)
        /\ \A run \in Runs(call.contour) : \A k \in run[1]..run[2] :
              response.contour[k] =
                  IF run[2] - run[1] + 1 >= MinDuration \/ run[1] = 1
                  THEN call.contour[k]
                  ELSE call.contour[run[1] - 1]

\* C24 (amended): every run shorter than min_duration that is not the first
\* run is replaced, element for element, by the value the output holds just
\* before it, that is by the value of the preceding run after that run's own
\* replacement; a short first run and the runs of length >= min_duration are
\* unchanged.
C24_RunMerging ==
    Smoothed =>
        /\ Len(response.contour) = Len(call.contour)
        /\ \A run \in Runs(call.contour) : \A k \in run[1]..run[2] :
              response.contour[k] =
                  IF run[2] - run[1] + 1 >= MinDuration \/ run[1] = 1
                  THEN call.contour[k]
                  ELSE response.contour[run[1] - 1]

\* two short runs in a row after a long one have both taken the value of
\* the long run
C24_Witness ==
    /\ Smoothed
    /\ call.contour = <<1, 1, 0, -1>>
    /\ response.contour = <<1, 1, 1, 1>>

\* C25: in the output of _smooth_contour, and so of extract_contour, every
\* maximal constant-value run other than the one starting at the first index
\* has length >= min_duration, and _smooth_contour applied to that output
\* returns it unchanged.
C25_NoJitter ==
    response.kind = "contour" =>
        /\ \A run \in Runs(response.contour) :
              run[1] > 1 => run[2] - run[1] + 1 >= MinDuration
        /\ _smooth_contour(response.contour, MinDuration) = response.contour

\* a contour with a short first run and a short last run has been smoothed:
\* the first run stays, the last one is merged
C25_Witness ==
    /\ Smoothed
    /\ call.contour = <<1, 0, 0, -1>>
    /\ response.contour = <<1, 0, 0, 0>>

\* C28: the alignment distance is symmetric: for all non-empty contours X
\* and Y and every window size, compute_distance(X, Y) equals
\* compute_distance(Y, X).
C28_Symmetric ==
    Computed =>
        DistEq(response.distance,
               compute_distance(call.reference, call.query, window_size))

(***************************************************************************)
(* The matching loop of match_humming and the scores of                    *)
(* match_with_details on a store that holds the query's contour and its    *)
(* inversion.                                                              *)
(***************************************************************************)
\* -X
Inverted(contour) == [k \in 1..Len(contour) |-> 0 - contour[k]]

InversionCalls ==
    {[op |-> "match_inverted", contour |-> contour,
      same_id |-> same_id, inverted_id |-> inverted_id, first |-> first] :
        contour \in (Contours(MaxLen) \cup ScenarioContours) \ {<<>>},
        same_id \in SongIds, inverted_id \in SongIds,
        first \in {"same", "inverted"}}

\* the store after load_signature of X and of -X, in either order
InitInversion ==
    /\ call \in {c \in InversionCalls : c.same_id # c.inverted_id}
    /\ LET same == MelodySignature(call.contour, <<>>, call.same_id,
                                   DefaultDuration)
           inverted == MelodySignature(Inverted(call.contour), <<>>,
                                       call.inverted_id, DefaultDuration)
       IN  signatures = IF call.first = "same" THEN <<same, inverted>>
                        ELSE <<inverted, same>>
    /\ window_size = HummingWindow
    /\ response = NoResponse
    /\ song_metadata = {}

\* match_humming from its loop on, and the scores match_with_details adds
MatchInverted ==
    /\ call.op = "match_inverted"
    /\ response = NoResponse
    /\ LET matched == match_humming(call.contour, signatures, window_size,
                                    DetailsTopK)
       IN  response' = [kind |-> "details",
                        matches |-> Details(matched.results)]
    /\ UNCHANGED <<signatures, window_size, call, song_metadata>>

NextInversion == MatchInverted

SpecInversion == InitInversion /\ [][NextInversion]_vars

\* C23: for a non-empty query contour X with a non-zero element, matched
\* against a store holding X and -X, the X entry gets distance 0 and
\* similarity 1, the -X entry a strictly greater distance and a strictly
\* lower similarity, and the X entry is ranked first whatever the insertion
\* order.
C23_InversionRanksSecond ==
    /\ call.op = "match_inverted"
    /\ response.kind = "details"
    /\ \E k \in 1..Len(call.contour) : call.contour[k] # 0
    => /\ Len(response.matches) = 2
       /\ response.matches[1].song_id = call.same_id
       /\ response.matches[2].song_id = call.inverted_id
       /\ response.matches[1].distance.num = 0
       /\ response.matches[1].similarity_score.num
             = response.matches[1].similarity_score.den
       /\ DistLess(response.matches[1].distance,
                   response.matches[2].distance)
       /\ SimLess(response.matches[2].similarity_score,
                  response.matches[1].similarity_score)

\* the inversion was stored first and the query <<1,-1,1,-1>> ranks its own
\* contour first
C23_Witness ==
    /\ call.op = "match_inverted"
    /\ call.contour = <<1, -1, 1, -1>>
    /\ call.first = "inverted"
    /\ response.kind = "details"
    /\ response.matches[1].song_id = call.same_id
    /\ response.matches[1].distance.num = 0
    /\ IsFinite(response.matches[2].distance)

(***************************************************************************)
(* match.py: identify_plays.  The loop is modelled one frame at a time;    *)
(* the list of frames is any sequence of at most MaxPassFrames frames, and *)
(* the function returns when the list ends.  A frame is what the loop      *)
(* reads from it: the possession event's type, the team                    *)
(* get_team_from_player finds for the passer ("missing": no                *)
(* passerPlayerId, "unlisted": the passer is in neither team list), the    *)
(* pass outcome, and how the receiver was resolved: "teammate"             *)
(* (receiver_team == passer_team with a receiver id), "opponent" (the      *)
(* named receiver is found in the other team) or "none" (no receiver id    *)
(* was found).  A pass of a play keeps its team, its outcome and its frame *)
(* time; the coordinates and player ids are left out.                      *)
(***************************************************************************)
MaxPassFrames == 7  \* frames of a list handed to identify_plays
MinPasses == 3      \* min_passes: int = 3

NoTeam == "None"    \* current_team = None
NoFrame == [possessionEventType |-> "none"]

PassFrames ==
    {[possessionEventType |-> "SH", passer |-> "home",
      passOutcomeType |-> "C", receiver |-> "teammate"]}
    \cup
    {[possessionEventType |-> "PA", passer |-> passer,
      passOutcomeType |-> "C", receiver |-> "teammate"] :
        passer \in {"missing", "unlisted"}}
    \cup
    {[possessionEventType |-> "PA", passer |-> passer,
      passOutcomeType |-> outcome, receiver |-> receiver] :
        passer \in {"home", "away"}, outcome \in {"C", "D"},
        receiver \in {"teammate", "opponent", "none"}}

\* the frames the loop passes over with continue
Skipped(frame) ==
    \/ frame.possessionEventType # "PA"
    \/ frame.passer = "missing"
    \/ frame.passer = "unlisted"

\* is_successful
IsSuccessful(frame) ==
    /\ frame.passOutcomeType = "C"
    /\ frame.receiver = "teammate"

\* the dict appended to current_play
Pass(frame, event_time) ==
    [team |-> frame.passer, outcome |-> frame.passOutcomeType,
     frame_time |-> event_time]

MutantFlush(plays, current_play, min_passes) == Append(plays, current_play)

\* if len(current_play) >= min_passes: plays.append(current_play)
Flush(plays, current_play, min_passes) ==
    IF Len(current_play) >= min_passes THEN Append(plays, current_play)
    ELSE plays

InitPlays ==
    /\ signatures = <<>>
    /\ window_size = HummingWindow
    /\ call \in {[op |-> "identify_plays", min_passes |-> min_passes,
                  i |-> 0, frame |-> NoFrame, plays |-> <<>>,
                  current_play |-> <<>>, current_team |-> NoTeam] :
                    min_passes \in 1..MinPasses}
    /\ response = NoResponse
    /\ song_metadata = {}

\* one iteration of the loop over frames
IdentifyStep(frame) ==
    /\ call.op = "identify_plays"
    /\ response = NoResponse
    /\ call.i < MaxPassFrames
    /\ LET passed == Pass(frame, call.i + 1)
           next == [call EXCEPT !.i = call.i + 1, !.frame = frame]
       IN  call' =
             IF Skipped(frame) THEN next
             ELSE IF IsSuccessful(frame)
             THEN IF call.current_team = NoTeam
                     \/ frame.passer = call.current_team
                  THEN [next EXCEPT
                          !.current_team = frame.passer,
                          !.current_play = Append(call.current_play, passed)]
                  ELSE [next EXCEPT
                          !.plays = Flush(call.plays, call.current_play,
                                          call.min_passes),
                          !.current_play = <<passed>>,
                          !.current_team = frame.passer]
             ELSE [next EXCEPT
                     !.plays = Flush(call.plays, call.current_play,
                                     call.min_passes),
                     !.current_play = <<>>,
                     !.current_team = NoTeam]
    /\ UNCHANGED <<signatures, window_size, response, song_metadata>>

\* the list of frames has ended: the final play is added and plays returned
IdentifyReturn ==
    /\ call.op = "identify_plays"
    /\ response = NoResponse
    /\ response' = [kind |-> "plays",
                    plays |-> Flush(call.plays, call.current_play,
                                    call.min_passes)]
    /\ UNCHANGED <<signatures, window_size, call, song_metadata>>

NextPlays ==
    \/ \E frame \in PassFrames : IdentifyStep(frame)
    \/ IdentifyReturn

SpecPlays == InitPlays /\ [][NextPlays]_vars

\* a play of at least min_passes passes, all completed, all of one team
GoodPlay(play, min_passes) ==
    /\ Len(play) >= min_passes
    /\ \A k \in 1..Len(play) :
          /\ play[k].outcome = "C"
          /\ play[k].team = play[1].team

\* C29: identify_plays returns only plays of at least min_passes passes, all
\* of outcome 'C' and of one team; a failed pass ends the current play and
\* resets the current team, a successful pass by the other team ends the
\* current play and starts a new one with that pass, and a play shorter than
\* min_passes when it ends is discarded, never returned.
C29_Plays ==
    /\ [](response.kind = "plays" =>
            \A p \in 1..Len(response.plays) :
                GoodPlay(response.plays[p], call.min_passes))
    /\ [][call.op = "identify_plays" /\ call'.i = call.i + 1
          /\ ~Skipped(call'.frame) =>
             LET frame == call'.frame
                 ended == IF Len(call.current_play) >= call.min_passes
                          THEN call.plays \o <<call.current_play>>
                          ELSE call.plays
             IN  /\ ~IsSuccessful(frame) =>
                        /\ call'.plays = ended
                        /\ call'.current_play = <<>>
                        /\ call'.current_team = NoTeam
                 /\ /\ IsSuccessful(frame)
                    /\ call.current_team \notin {NoTeam, frame.passer}
                    => /\ call'.plays = ended
                       /\ Len(call'.current_play) = 1
                       /\ call'.current_play[1].team = frame.passer
                       /\ call'.current_play[1].frame_time = call'.i
                       /\ call'.current_team = frame.passer]_vars
    /\ [][response'.kind = "plays" /\ response.kind # "plays" =>
             response'.plays =
                 IF Len(call.current_play) >= call.min_passes
                 THEN call.plays \o <<call.current_play>>
                 ELSE call.plays]_vars

\* with min_passes 3, identify_plays has returned a play of each team
C29_Witness ==
    /\ call.op = "identify_plays"
    /\ call.min_passes = MinPasses
    /\ response.kind = "plays"
    /\ Len(response.plays) = 2
    /\ response.plays[1][1].team # response.plays[2][1].team

(***************************************************************************)
(* Appfb.py: POST /api/analyze (analyze_direct).  Flask's development      *)
(* server runs each request in a thread of its own, and each request runs  *)
(* match.py as a subprocess, which writes its result to                    *)
(* integrated_analysis_output.json in the working directory.  A request r  *)
(* uploads its own two match files and gets a fresh uuid4, here r; the     *)
(* output of the analysis of request r's files is Analysis(r).  The record *)
(* call holds the position of every request, the dict analysis_sessions,   *)
(* the content of the shared output file, and what each request returned.  *)
(***************************************************************************)
MaxRequests == 3  \* concurrent requests to /api/analyze

Requests == 1..MaxRequests

AnalyzeUploads == {"missing", "unnamed", "not_json", "json"}

\* what json.dump of match.py writes for the files of request r
Analysis(r) == [kind |-> "analysis", of |-> r]
NoFile == [kind |-> "absent"]          \* the file does not exist
Truncated == [kind |-> "truncated"]    \* opened with 'w', not yet dumped

NoSession == [status |-> "absent"]     \* session_id not in analysis_sessions
NotReturned == [status |-> 0]

InitAnalyze ==
    /\ signatures = <<>>
    /\ window_size = HummingWindow
    /\ call = [op |-> "analyze_direct",
               pc |-> [r \in Requests |-> "idle"],
               analysis_sessions |-> [r \in Requests |-> NoSession],
               default_output |-> NoFile,
               loaded |-> [r \in Requests |-> NoFile],
               returned |-> [r \in Requests |-> NotReturned]]
    /\ response = NoResponse
    /\ song_metadata = {}

AnalyzeUnchanged == UNCHANGED <<signatures, window_size, response,
                               song_metadata>>

\* the three 400 answers before a session exists
AnalyzeRejected(r, upload) ==
    /\ call.op = "analyze_direct"
    /\ call.pc[r] = "idle"
    /\ upload # "json"
    /\ call' = [call EXCEPT !.pc[r] = "done",
                            !.returned[r] = [status |-> 400]]
    /\ AnalyzeUnchanged

\* the files are saved, the session is stored, subprocess.run is called
AnalyzeStart(r) ==
    /\ call.op = "analyze_direct"
    /\ call.pc[r] = "idle"
    /\ call' = [call EXCEPT
                  !.pc[r] = "running",
                  !.analysis_sessions[r] = [status |-> "analyzing"]]
    /\ AnalyzeUnchanged

\* match.py ends with a return code other than 0 before it writes
ScriptFails(r) ==
    /\ call.op = "analyze_direct"
    /\ call.pc[r] = "running"
    /\ call' = [call EXCEPT
                  !.pc[r] = "done",
                  !.analysis_sessions[r] = [status |-> "error"],
                  !.returned[r] = [status |-> 500]]
    /\ AnalyzeUnchanged

\* subprocess.TimeoutExpired
ScriptTimeout(r) ==
    /\ call.op = "analyze_direct"
    /\ call.pc[r] = "running"
    /\ call' = [call EXCEPT
                  !.pc[r] = "done",
                  !.analysis_sessions[r] = [status |-> "error"],
                  !.returned[r] = [status |-> 504]]
    /\ AnalyzeUnchanged

\* match.py main: with open(output_file, 'w') as f
ScriptOpens(r) ==
    /\ call.op = "analyze_direct"
    /\ call.pc[r] = "running"
    /\ call' = [call EXCEPT !.pc[r] = "writing",
                            !.default_output = Truncated]
    /\ AnalyzeUnchanged

\* match.py main: json.dump(output, f, indent=2), and the script exits 0
ScriptWrites(r) ==
    /\ call.op = "analyze_direct"
    /\ call.pc[r] = "writing"
    /\ call' = [call EXCEPT !.pc[r] = "exited",
                            !.default_output = Analysis(r)]
    /\ AnalyzeUnchanged

\* default_output.exists() and json.load(f); a file that another script has
\* opened and not yet written makes json.load raise
AnalyzeLoad(r) ==
    /\ call.op = "analyze_direct"
    /\ call.pc[r] = "exited"
    /\ call' =
          IF call.default_output = NoFile
          THEN [call EXCEPT
                  !.pc[r] = "done",
                  !.analysis_sessions[r] = [status |-> "error"],
                  !.returned[r] = [status |-> 500]]
          ELSE IF call.default_output = Truncated
          THEN [call EXCEPT
                  !.pc[r] = "done",
                  !.analysis_sessions[r] = [status |-> "error"],
                  !.returned[r] = [status |-> 500]]
          ELSE [call EXCEPT !.pc[r] = "loaded",
                            !.loaded[r] = call.default_output]
    /\ AnalyzeUnchanged

\* shutil.copy to the session's file, the session update and the response
AnalyzeComplete(r) ==
    /\ call.op = "analyze_direct"
    /\ call.pc[r] = "loaded"
    /\ call' = [call EXCEPT
                  !.pc[r] = "done",
                  !.analysis_sessions[r] =
                      [status |-> "completed",
                       output_file |-> call.default_output,
                       analysis_data |-> call.loaded[r]],
                  !.returned[r] = [status |-> 200,
                                   data |-> call.loaded[r]]]
    /\ AnalyzeUnchanged

NextAnalyze ==
    \E r \in Requests :
        \/ \E upload \in AnalyzeUploads : AnalyzeRejected(r, upload)
        \/ AnalyzeStart(r)
        \/ ScriptFails(r)
        \/ ScriptTimeout(r)
        \/ ScriptOpens(r)
        \/ ScriptWrites(r)
        \/ AnalyzeLoad(r)
        \/ AnalyzeComplete(r)

SpecAnalyze == InitAnalyze /\ [][NextAnalyze]_vars

\* C30: under any interleaving of concurrent analyze_direct requests, the
\* analysis data stored in a session and returned to its caller is the
\* output of the analysis run on that session's own two match files, and a
\* session's status only moves from 'analyzing' to 'completed' or 'error'.
C30_OwnAnalysis ==
    /\ [](call.op = "analyze_direct" =>
            \A r \in Requests :
                /\ call.analysis_sessions[r].status = "completed" =>
                      call.analysis_sessions[r].analysis_data = Analysis(r)
                /\ call.returned[r].status = 200 =>
                      call.returned[r].data = Analysis(r))
    /\ [][call.op = "analyze_direct" =>
            \A r \in Requests :
                /\ call.analysis_sessions[r].status # "absent"
                /\ call'.analysis_sessions[r].status
                      # call.analysis_sessions[r].status
                => /\ call.analysis_sessions[r].status = "analyzing"
                   /\ call'.analysis_sessions[r].status
                         \in {"completed", "error"}]_vars

=============================================================================
